---------------------------- MODULE Spec2Model ----------------------------
(***************************************************************************)
(* Ford FG Falcon ICC HVAC display (monochrome.py): the HVACState record,  *)
(* the click dispatchers of the button and slider panels, the command      *)
(* callbacks of FordFGHVACApp, the clock tick and what HVACDisplay.draw    *)
(* renders from the state.                                                 *)
(*                                                                         *)
(* Units: set_temp is held in tenths of a degree Celsius (23.5 is 235,     *)
(* the 0.5 step is 5).  Every value the program gives set_temp is a        *)
(* multiple of 0.5 of magnitude below 2^52, which binary floating point    *)
(* adds and compares exactly, so integer tenths lose nothing.              *)
(* Text is a sequence of one-character strings.                            *)
(***************************************************************************)
EXTENDS Integers, Sequences, FiniteSets, TLC

VARIABLES
    state,      \* FordFGHVACApp.state: the HVACState record
    display,    \* what the most recent HVACDisplay.draw() put on the canvas
    out,        \* the lines printed to stdout by the most recent event
    renders,    \* the number of HVACDisplay.draw() calls of the most recent event
    calls,      \* the callbacks invoked by the most recent event, in order
    ev,         \* the most recent event: [kind, x]
    now,        \* the <<hour, minute>> the most recent datetime.now() returned
    pending,    \* the number of Tk after() timers scheduled and not yet fired
    ups         \* consecutive _on_temp_up invocations since set_temp was 23.5
                \* (-1 when the run is broken)

vars == <<state, display, out, renders, calls, ev, now, pending, ups>>

----------------------------------------------------------------------------
(* Bounds and inputs *)

\* ups counts up to here and then stays
MaxRun == 19

\* the most glyphs drawn when _draw_7seg is exercised by itself
MaxGlyphs == 2

\* the characters and sizes _draw_7seg is exercised with
Glyphs == {"0", "1", "2", "3", "4", "5", "6", "7", "8", "9", "-", " ",
           ".", ":", "A", "°"}

Sizes == {"large", "small"}

\* the widest click coordinate: a canvas of width 580 with a highlight
\* border of 2 on each side delivers event.x in 0..583
MaxX == 583

\* the <<hour, minute>> readings datetime.now() is given to return
WallClock == {<<0, 59>>, <<14, 5>>}

\* every click coordinate a panel can deliver
AllXs == 0..MaxX

\* click coordinates on the button panel, one in each of its 8 bands
ButtonXs == {40, 108, 180, 252, 324, 396, 468, 540}

\* click coordinates on the slider panel, one in each zone of each control
SliderXs == {20, 97, 170, 215, 290, 365, 410, 483, 560}

----------------------------------------------------------------------------
(* Text formatting *)

Chars(s) ==
    CASE s = "On" -> <<"O", "n">>
      [] s = "Off" -> <<"O", "f", "f">>

DigitChar(d) == <<"0", "1", "2", "3", "4", "5", "6", "7", "8", "9">>[d + 1]

\* str(n) of an integer
RECURSIVE NatStr(_)
NatStr(n) ==
    IF n < 10 THEN <<DigitChar(n)>>
    ELSE NatStr(n \div 10) \o <<DigitChar(n % 10)>>

IntStr(n) == IF n < 0 THEN <<"-">> \o NatStr(-n) ELSE NatStr(n)

\* zero padding on the left to a minimum width, the sign kept in front
RECURSIVE ZeroPad(_, _)
ZeroPad(s, width) ==
    IF Len(s) >= width THEN s
    ELSE IF Len(s) > 0 /\ Head(s) = "-"
         THEN <<"-">> \o ZeroPad(Tail(s), width - 1)
         ELSE ZeroPad(<<"0">> \o s, width)

\* f"{n:02d}"
Fmt02d(n) == ZeroPad(IntStr(n), 2)

\* a float that is a whole number of tenths, to one decimal place
FixedTenths(t) ==
    LET a == IF t < 0 THEN -t ELSE t
        body == NatStr(a \div 10) \o <<".">> \o <<DigitChar(a % 10)>>
    IN  IF t < 0 THEN <<"-">> \o body ELSE body

\* f"{x:04.1f}"
Fmt04_1f(t) == ZeroPad(FixedTenths(t), 4)

\* f"{x}" of a float: for a multiple of 0.5 its repr has one decimal
FloatStr(t) == FixedTenths(t)

----------------------------------------------------------------------------
(* HVACState *)

HVACState ==
    [set_temp |-> 235, outside_temp |-> -12, fan_speed |-> 5,
     ac_on |-> FALSE, auto_mode |-> TRUE,
     front_defrost |-> TRUE, rear_defrost |-> TRUE,
     hours |-> 13, minutes |-> 28]

----------------------------------------------------------------------------
(* HVACDisplay.draw: the parts of the frame drawn from the state, the     *)
(* outside temperature digits and the mode labels; the tick marks, icons  *)
(* and captions, which are the same in every frame, are left out.         *)

time_str(s) == Fmt02d(s.hours) \o <<":">> \o Fmt02d(s.minutes)

temp_str(s) == Fmt04_1f(s.set_temp)

\* the 8 rectangles of the fan bar: TRUE is filled, FALSE is outlined
fan_bar(s) == [i \in 1..8 |-> (i - 1) < s.fan_speed]

\* the segment patterns, A to G, of _draw_7seg
patterns ==
    ("0" :> <<1, 1, 1, 1, 1, 1, 0>>) @@
    ("1" :> <<0, 1, 1, 0, 0, 0, 0>>) @@
    ("2" :> <<1, 1, 0, 1, 1, 0, 1>>) @@
    ("3" :> <<1, 1, 1, 1, 0, 0, 1>>) @@
    ("4" :> <<0, 1, 1, 0, 0, 1, 1>>) @@
    ("5" :> <<1, 0, 1, 1, 0, 1, 1>>) @@
    ("6" :> <<1, 0, 1, 1, 1, 1, 1>>) @@
    ("7" :> <<1, 1, 1, 0, 0, 0, 0>>) @@
    ("8" :> <<1, 1, 1, 1, 1, 1, 1>>) @@
    ("9" :> <<1, 1, 1, 1, 0, 1, 1>>) @@
    ("-" :> <<0, 0, 0, 0, 0, 0, 1>>) @@
    (" " :> <<0, 0, 0, 0, 0, 0, 0>>)

\* the lookup falling back to the pattern of "8"
segs_default_on(digit) ==
    IF digit \in DOMAIN patterns THEN patterns[digit]
    ELSE <<1, 1, 1, 1, 1, 1, 1>>

\* patterns.get(digit, (0,0,0,0,0,0,0))
segs(digit) ==
    IF digit \in DOMAIN patterns THEN patterns[digit]
    ELSE <<0, 0, 0, 0, 0, 0, 0>>

\* _draw_7seg: the glyph it adds to the canvas, with the width, height and
\* thickness of its size and the segments it creates a polygon for, in the
\* order drawn (the coordinates of the polygons are left out)
_draw_7seg(digit, size) ==
    LET dims == IF size = "large" THEN <<24, 44, 5>> ELSE <<12, 20, 3>>
        lit  == segs(digit)
    IN  [digit |-> digit, w |-> dims[1], h |-> dims[2], t |-> dims[3],
         polygons |->
            (IF lit[1] # 0 THEN <<"A">> ELSE <<>>) \o
            (IF lit[2] # 0 THEN <<"B">> ELSE <<>>) \o
            (IF lit[3] # 0 THEN <<"C">> ELSE <<>>) \o
            (IF lit[4] # 0 THEN <<"D">> ELSE <<>>) \o
            (IF lit[5] # 0 THEN <<"E">> ELSE <<>>) \o
            (IF lit[6] # 0 THEN <<"F">> ELSE <<>>) \o
            (IF lit[7] # 0 THEN <<"G">> ELSE <<>>)]

_draw_small_7seg(digit) == _draw_7seg(digit, "small")

\* the large glyphs of the set temperature: one for every character of the
\* text but the decimal point, which is drawn as a dot
RECURSIVE temp_glyphs(_)
temp_glyphs(str) ==
    IF str = <<>> THEN <<>>
    ELSE IF Head(str) = "." THEN temp_glyphs(Tail(str))
    ELSE <<_draw_7seg(Head(str), "large")>> \o temp_glyphs(Tail(str))

\* the seven-segment glyphs of a frame d, in the order draw() makes them:
\* the frame keeps the characters, the glyphs follow from them
frame_glyphs(d) ==
    <<_draw_small_7seg(d.outside[1]), _draw_small_7seg(d.outside[2]),
      _draw_small_7seg(d.outside[3])>> \o temp_glyphs(d.temp_str)

draw(s) ==
    [time_str   |-> time_str(s),
     auto_label |-> "Auto",
     outside    |-> <<"-", "1", "2">>,
     temp_str   |-> temp_str(s),
     fan_bar    |-> fan_bar(s),
     mode_label |-> "Semi-Auto",
     ac_label   |-> "A/C Off"]

----------------------------------------------------------------------------
(* The application: a machine m is [state, display, out, renders], the    *)
(* state and canvas together with what the running event has printed and  *)
(* drawn so far.                                                          *)

print(m, tag, text) == [m EXCEPT !.out = Append(@, [tag |-> tag, text |-> text])]

_refresh(m) == [m EXCEPT !.display = draw(m.state), !.renders = @ + 1]

\* _on_off redrawing like the toggle handlers do
_on_off_refresh(m) == _refresh(print(m, "[CAN TX] OFF pressed", <<>>))

_on_off(m) == print(m, "[CAN TX] OFF pressed", <<>>)

_on_recirc(m) == print(m, "[CAN TX] Recirc pressed", <<>>)

_on_hazard(m) == print(m, "[CAN] Hazard", <<>>)

_on_air_dir(m) == print(m, "[CAN] Air direction", <<>>)

OnOff(b) == Chars(IF b THEN "On" ELSE "Off")

\* _on_ac switching the A/C on instead of toggling it
_on_ac_set(m) ==
    LET m1 == [m EXCEPT !.state.ac_on = TRUE]
        m2 == print(m1, "[CAN TX] A/C: ", OnOff(m1.state.ac_on))
    IN  _refresh(m2)

_on_ac(m) ==
    LET m1 == [m EXCEPT !.state.ac_on = ~@]
        m2 == print(m1, "[CAN TX] A/C: ", OnOff(m1.state.ac_on))
    IN  _refresh(m2)

\* _on_auto switching the A/C on whenever it switches auto mode on
_on_auto_with_ac(m) ==
    LET m1 == [m EXCEPT !.state.auto_mode = ~@,
                        !.state.ac_on = @ \/ ~m.state.auto_mode]
        m2 == print(m1, "[CAN TX] Auto: ", OnOff(m1.state.auto_mode))
    IN  _refresh(m2)

_on_auto(m) ==
    LET m1 == [m EXCEPT !.state.auto_mode = ~@]
        m2 == print(m1, "[CAN TX] Auto: ", OnOff(m1.state.auto_mode))
    IN  _refresh(m2)

_on_front_def(m) ==
    LET m1 == [m EXCEPT !.state.front_defrost = ~@]
        m2 == print(m1, "[CAN TX] Front Defrost: ", OnOff(m1.state.front_defrost))
    IN  _refresh(m2)

_on_rear_def(m) ==
    LET m1 == [m EXCEPT !.state.rear_defrost = ~@]
        m2 == print(m1, "[CAN TX] Rear Defrost: ", OnOff(m1.state.rear_defrost))
    IN  _refresh(m2)

\* _on_fan_up without the call of _refresh
_on_fan_up_stale(m) ==
    IF m.state.fan_speed < 8
    THEN LET m1 == [m EXCEPT !.state.fan_speed = @ + 1]
         IN  print(m1, "[CAN TX] Fan: ", IntStr(m1.state.fan_speed))
    ELSE m

\* _on_fan_up with the bound test off by one (<= 8)
_on_fan_up_inclusive(m) ==
    IF m.state.fan_speed <= 8
    THEN LET m1 == [m EXCEPT !.state.fan_speed = @ + 1]
             m2 == print(m1, "[CAN TX] Fan: ", IntStr(m1.state.fan_speed))
         IN  _refresh(m2)
    ELSE m

_on_fan_up(m) ==
    IF m.state.fan_speed < 8
    THEN LET m1 == [m EXCEPT !.state.fan_speed = @ + 1]
             m2 == print(m1, "[CAN TX] Fan: ", IntStr(m1.state.fan_speed))
         IN  _refresh(m2)
    ELSE m

\* _on_fan_down clamping with max() and then logging and drawing regardless
_on_fan_down_clamped(m) ==
    LET f  == IF m.state.fan_speed - 1 < 0 THEN 0 ELSE m.state.fan_speed - 1
        m1 == [m EXCEPT !.state.fan_speed = f]
        m2 == print(m1, "[CAN TX] Fan: ", IntStr(m1.state.fan_speed))
    IN  _refresh(m2)

_on_fan_down(m) ==
    IF m.state.fan_speed > 0
    THEN LET m1 == [m EXCEPT !.state.fan_speed = @ - 1]
             m2 == print(m1, "[CAN TX] Fan: ", IntStr(m1.state.fan_speed))
         IN  _refresh(m2)
    ELSE m

\* _on_temp_up clamping with min() and then logging and drawing regardless
_on_temp_up_clamped(m) ==
    LET t  == IF m.state.set_temp + 5 > 320 THEN 320 ELSE m.state.set_temp + 5
        m1 == [m EXCEPT !.state.set_temp = t]
        m2 == print(m1, "[CAN TX] Temp: ",
                    FloatStr(m1.state.set_temp) \o <<"°", "C">>)
    IN  _refresh(m2)

\* _on_temp_up stepping by a whole degree
_on_temp_up_whole(m) ==
    IF m.state.set_temp < 320
    THEN LET m1 == [m EXCEPT !.state.set_temp = @ + 10]
             m2 == print(m1, "[CAN TX] Temp: ",
                         FloatStr(m1.state.set_temp) \o <<"°", "C">>)
         IN  _refresh(m2)
    ELSE m

_on_temp_up(m) ==
    IF m.state.set_temp < 320
    THEN LET m1 == [m EXCEPT !.state.set_temp = @ + 5]
             m2 == print(m1, "[CAN TX] Temp: ",
                         FloatStr(m1.state.set_temp) \o <<"°", "C">>)
         IN  _refresh(m2)
    ELSE m

\* _on_temp_down stepping by 0.1
_on_temp_down_tenth(m) ==
    IF m.state.set_temp > 160
    THEN LET m1 == [m EXCEPT !.state.set_temp = @ - 1]
             m2 == print(m1, "[CAN TX] Temp: ",
                         FloatStr(m1.state.set_temp) \o <<"°", "C">>)
         IN  _refresh(m2)
    ELSE m

\* _on_temp_down with the bound test off by one (>= 16)
_on_temp_down_inclusive(m) ==
    IF m.state.set_temp >= 160
    THEN LET m1 == [m EXCEPT !.state.set_temp = @ - 5]
             m2 == print(m1, "[CAN TX] Temp: ",
                         FloatStr(m1.state.set_temp) \o <<"°", "C">>)
         IN  _refresh(m2)
    ELSE m

_on_temp_down(m) ==
    IF m.state.set_temp > 160
    THEN LET m1 == [m EXCEPT !.state.set_temp = @ - 5]
             m2 == print(m1, "[CAN TX] Temp: ",
                         FloatStr(m1.state.set_temp) \o <<"°", "C">>)
         IN  _refresh(m2)
    ELSE m

\* self.callbacks with the driver's two temperature commands bound the
\* wrong way round
callbacks_drv_swapped(name, m) ==
    CASE name = "off"            -> _on_off(m)
      [] name = "recirc"         -> _on_recirc(m)
      [] name = "ac"             -> _on_ac(m)
      [] name = "auto"           -> _on_auto(m)
      [] name = "hazard"         -> _on_hazard(m)
      [] name = "front_def"      -> _on_front_def(m)
      [] name = "air_dir"        -> _on_air_dir(m)
      [] name = "rear_def"       -> _on_rear_def(m)
      [] name = "fan_up"         -> _on_fan_up(m)
      [] name = "fan_down"       -> _on_fan_down(m)
      [] name = "pass_temp_up"   -> _on_temp_up(m)
      [] name = "pass_temp_down" -> _on_temp_down(m)
      [] name = "drv_temp_up"    -> _on_temp_down(m)
      [] name = "drv_temp_down"  -> _on_temp_up(m)
      [] OTHER                   -> m

\* self.callbacks, looked up with .get(name, lambda: None) and called
callbacks(name, m) ==
    CASE name = "off"            -> _on_off(m)
      [] name = "recirc"         -> _on_recirc(m)
      [] name = "ac"             -> _on_ac(m)
      [] name = "auto"           -> _on_auto(m)
      [] name = "hazard"         -> _on_hazard(m)
      [] name = "front_def"      -> _on_front_def(m)
      [] name = "air_dir"        -> _on_air_dir(m)
      [] name = "rear_def"       -> _on_rear_def(m)
      [] name = "fan_up"         -> _on_fan_up(m)
      [] name = "fan_down"       -> _on_fan_down(m)
      [] name = "pass_temp_up"   -> _on_temp_up(m)
      [] name = "pass_temp_down" -> _on_temp_down(m)
      [] name = "drv_temp_up"    -> _on_temp_up(m)
      [] name = "drv_temp_down"  -> _on_temp_down(m)
      [] OTHER                   -> m

\* HVACButtons._on_click with the first breakpoint inclusive (x <= 72)
HVACButtons_on_click_inclusive(x) ==
    IF x <= 72 THEN <<"off">>
    ELSE IF x < 144 THEN <<"recirc">>
    ELSE IF x < 216 THEN <<"ac">>
    ELSE IF x < 288 THEN <<"auto">>
    ELSE IF x < 360 THEN <<"hazard">>
    ELSE IF x < 432 THEN <<"front_def">>
    ELSE IF x < 504 THEN <<"air_dir">>
    ELSE <<"rear_def">>

\* HVACButtons._on_click: the callback names it looks up, in order
HVACButtons_on_click(x) ==
    IF x < 72 THEN <<"off">>
    ELSE IF x < 144 THEN <<"recirc">>
    ELSE IF x < 216 THEN <<"ac">>
    ELSE IF x < 288 THEN <<"auto">>
    ELSE IF x < 360 THEN <<"hazard">>
    ELSE IF x < 432 THEN <<"front_def">>
    ELSE IF x < 504 THEN <<"air_dir">>
    ELSE <<"rear_def">>

\* HVACSliders._on_click with the passenger increment zone inclusive (x >= 140)
HVACSliders_on_click_inclusive(x) ==
    IF x < 193
    THEN IF x < 50 THEN <<"pass_temp_down">>
         ELSE IF x >= 140 THEN <<"pass_temp_up">>
         ELSE <<>>
    ELSE IF x < 387
    THEN IF x < 240 THEN <<"fan_down">>
         ELSE IF x > 340 THEN <<"fan_up">>
         ELSE <<>>
    ELSE IF x < 430 THEN <<"drv_temp_down">>
         ELSE IF x > 530 THEN <<"drv_temp_up">>
         ELSE <<>>

\* HVACSliders._on_click: the callback names it looks up, in order
HVACSliders_on_click(x) ==
    IF x < 193
    THEN IF x < 50 THEN <<"pass_temp_down">>
         ELSE IF x > 140 THEN <<"pass_temp_up">>
         ELSE <<>>
    ELSE IF x < 387
    THEN IF x < 240 THEN <<"fan_down">>
         ELSE IF x > 340 THEN <<"fan_up">>
         ELSE <<>>
    ELSE IF x < 430 THEN <<"drv_temp_down">>
         ELSE IF x > 530 THEN <<"drv_temp_up">>
         ELSE <<>>

\* the callbacks of one click, run in order
RECURSIVE Run(_, _)
Run(names, m) ==
    IF names = <<>> THEN m
    ELSE Run(Tail(names), callbacks(Head(names), m))

\* _update_clock returning without scheduling the next call
after_forgotten(p) == p

\* self.after(1000, self._update_clock): one more timer is scheduled
after(p) == p + 1

\* _update_clock advancing the stored time by a minute instead of reading it
_update_clock_increment(m, t) ==
    LET mm == (m.state.minutes + 1) % 60
        hh == IF mm = 0 THEN (m.state.hours + 1) % 24 ELSE m.state.hours
    IN  _refresh([m EXCEPT !.state.hours = hh, !.state.minutes = mm])

\* FordFGHVACApp._update_clock with datetime.now() returning t
_update_clock(m, t) ==
    _refresh([m EXCEPT !.state.hours = t[1], !.state.minutes = t[2]])

----------------------------------------------------------------------------
(* Events *)

\* the machine as an event handler finds it: nothing printed or drawn yet
Entry == [state |-> state, display |-> display, out |-> <<>>, renders |-> 0]

\* whether these callbacks are one invocation of _on_temp_up
IsTempUp(names) == names = <<"pass_temp_up">> \/ names = <<"drv_temp_up">>

\* the run of temp-up invocations from 23.5, after an event
NextUps(names, m) ==
    IF m.state.set_temp = 235 THEN 0
    ELSE IF IsTempUp(names) /\ ups >= 0
         THEN (IF ups < MaxRun THEN ups + 1 ELSE MaxRun)
         ELSE -1

\* a click handler runs: the callbacks it dispatches to act on the machine
Deliver(kind, x, names) ==
    \E m \in {Run(names, Entry)} :
        /\ state' = m.state
        /\ display' = m.display
        /\ out' = m.out
        /\ renders' = m.renders
        /\ calls' = names
        /\ ev' = [kind |-> kind, x |-> x]
        /\ ups' = NextUps(names, m)
        /\ UNCHANGED <<now, pending>>

\* a <Button-1> click on the button panel at event.x = x
ButtonClick(x) == Deliver("button", x, HVACButtons_on_click(x))

\* a <Button-1> click on the slider panel at event.x = x
SliderClick(x) == Deliver("slider", x, HVACSliders_on_click(x))

\* a timer fires and runs _update_clock, datetime.now() returning t
Tick(t) ==
    /\ pending > 0
    /\ \E m \in {_update_clock(Entry, t)} :
           /\ state' = m.state
           /\ display' = m.display
           /\ out' = m.out
           /\ renders' = m.renders
           /\ ups' = NextUps(<<>>, m)
    /\ calls' = <<>>
    /\ ev' = [kind |-> "tick", x |-> 0]
    /\ now' = t
    /\ pending' = after(pending - 1)

\* FordFGHVACApp.__init__: the state is built with its defaults, the display
\* draws itself once, and _update_clock runs once and schedules the timer
Init ==
    \E t \in WallClock :
        LET m0 == [state |-> HVACState, display |-> draw(HVACState),
                   out |-> <<>>, renders |-> 1]
            m == _update_clock(m0, t)
        IN  /\ state = m.state
            /\ display = m.display
            /\ out = m.out
            /\ renders = m.renders
            /\ calls = <<>>
            /\ ev = [kind |-> "start", x |-> 0]
            /\ now = t
            /\ pending = after(0)
            /\ ups = IF m.state.set_temp = 235 THEN 0 ELSE -1

Buttons == \E x \in ButtonXs : ButtonClick(x)

Sliders == \E x \in SliderXs : SliderClick(x)

Clock == \E t \in WallClock : Tick(t)

Next == Buttons \/ Sliders \/ Clock

Spec == Init /\ [][Next]_vars

\* the dispatchers alone: one click, at any coordinate a panel can deliver,
\* on the application as constructed
FirstButtonClick == ev.kind = "start" /\ \E x \in AllXs : ButtonClick(x)

FirstSliderClick == ev.kind = "start" /\ \E x \in AllXs : SliderClick(x)

NextDispatch == FirstButtonClick \/ FirstSliderClick

SpecDispatch == Init /\ [][NextDispatch]_vars

\* the clicks interleaved with the timer where its scheduling is followed
\* over whole behaviours: every button, and the fan control's three zones
LiveSliderXs == {215, 290, 365}

LiveButtons == \E x \in ButtonXs : ButtonClick(x)

LiveSliders == \E x \in LiveSliderXs : SliderClick(x)

NextFair == LiveButtons \/ LiveSliders \/ Clock

\* the Tk main loop runs a timer that is due: the clock tick is not
\* postponed forever
SpecFair == Init /\ [][NextFair]_vars /\ WF_vars(Clock)

\* _draw_7seg by itself.  Here display is the list of the glyphs on a
\* canvas that self.delete("all") has emptied, and every call adds one.
InitSeg ==
    \E t \in WallClock :
        /\ state = [HVACState EXCEPT !.hours = t[1], !.minutes = t[2]]
        /\ display = <<>>
        /\ out = <<>>
        /\ renders = 0
        /\ calls = <<>>
        /\ ev = [kind |-> "start", x |-> 0]
        /\ now = t
        /\ pending = after(0)
        /\ ups = 0

Draw7Seg(digit, size) ==
    /\ Len(display) < MaxGlyphs
    /\ display' = Append(display, _draw_7seg(digit, size))
    /\ UNCHANGED <<state, out, renders, calls, ev, now, pending, ups>>

NextSeg == \E digit \in Glyphs, size \in Sizes : Draw7Seg(digit, size)

SpecSeg == InitSeg /\ [][NextSeg]_vars

----------------------------------------------------------------------------
(* Properties *)

\* the event left the state, the canvas, stdout and the draw count alone
NoEffect ==
    /\ state' = state
    /\ display' = display
    /\ out' = <<>>
    /\ renders' = 0

\* the event printed exactly one line and drew exactly once
OneLogOneRender == Len(out') = 1 /\ renders' = 1

\* C1: fan_speed is an integer in 0..8 in every reachable state; away from
\* the bound fan_up adds exactly 1 to it and fan_down subtracts exactly 1.
C1_FanSpeedRange ==
    /\ [](state.fan_speed \in 0..8)
    /\ [][/\ (calls' = <<"fan_up">> /\ state.fan_speed < 8)
                => state'.fan_speed = state.fan_speed + 1
          /\ (calls' = <<"fan_down">> /\ state.fan_speed > 0)
                => state'.fan_speed = state.fan_speed - 1]_vars

\* fan_down has just taken fan_speed to its lower bound
C1_Witness == calls = <<"fan_down">> /\ state.fan_speed = 0 /\ renders = 1

\* C2: set_temp is a multiple of 0.5 between 16.0 and 32.0 in every
\* reachable state.
C2_SetTempRange ==
    /\ state.set_temp % 5 = 0
    /\ 160 <= state.set_temp
    /\ state.set_temp <= 320

\* a temp-down has just taken set_temp to 16.0
C2_Witness ==
    /\ calls \in {<<"pass_temp_down">>, <<"drv_temp_down">>}
    /\ state.set_temp = 160
    /\ renders = 1

\* C3: fan_up at 8, fan_down at 0, temp-up at 32.0 and temp-down at 16.0
\* change no field, print nothing and draw nothing; away from the bound each
\* prints exactly one line and draws exactly once.
C3_NoOpAtBound ==
    [][/\ (calls' = <<"fan_up">>) =>
            IF state.fan_speed = 8 THEN NoEffect ELSE OneLogOneRender
       /\ (calls' = <<"fan_down">>) =>
            IF state.fan_speed = 0 THEN NoEffect ELSE OneLogOneRender
       /\ (calls' \in {<<"pass_temp_up">>, <<"drv_temp_up">>}) =>
            IF state.set_temp = 320 THEN NoEffect ELSE OneLogOneRender
       /\ (calls' \in {<<"pass_temp_down">>, <<"drv_temp_down">>}) =>
            IF state.set_temp = 160 THEN NoEffect ELSE OneLogOneRender]_vars

\* a temp-up was invoked at 32.0 and did nothing
C3_Witness ==
    /\ calls = <<"drv_temp_up">>
    /\ state.set_temp = 320
    /\ out = <<>>
    /\ renders = 0

\* C4 as stated: after 17 consecutive temp-ups from 23.5 the 17th found
\* set_temp at 32.0 and did nothing.
C4_SeventeenthIsNoOp ==
    ups = 17 => (state.set_temp = 320 /\ out = <<>> /\ renders = 0)

\* C4, amended: k consecutive temp-ups from 23.5 leave set_temp at
\* 23.5 + 0.5 k for k up to 17, so the 17th is made from 31.5, takes set_temp
\* to 32.0 and prints and draws once; the 18th is made from 32.0 and is the
\* first that does nothing.
C4_EighteenthIsNoOp ==
    /\ (ups \in 0..17) => state.set_temp = 235 + 5 * ups
    /\ (ups = 17) => (Len(out) = 1 /\ renders = 1)
    /\ (ups >= 18) => (state.set_temp = 320 /\ out = <<>> /\ renders = 0)

\* the 18th consecutive temp-up from 23.5 has been invoked
C4_Witness == ups = 18 /\ state.set_temp = 320 /\ out = <<>>

\* the boolean each toggle command owns, and the command's log prefix
ToggleField ==
    [ac |-> "ac_on", auto |-> "auto_mode",
     front_def |-> "front_defrost", rear_def |-> "rear_defrost"]

Toggles == DOMAIN ToggleField

\* C5: ac, auto, front_def and rear_def each negate their own boolean, print
\* exactly one line that carries the new value as On or Off and draw exactly
\* once; the first ac toggle of the constructed application makes ac_on
\* TRUE; invoking a toggle twice in a row restores its boolean.
C5_Toggles ==
    /\ [][\A c \in Toggles :
            calls' = <<c>> =>
                /\ state'[ToggleField[c]] = ~state[ToggleField[c]]
                /\ Len(out') = 1
                /\ out'[1].text = OnOff(state'[ToggleField[c]])
                /\ renders' = 1]_vars
    /\ [][(ev.kind = "start" /\ calls' = <<"ac">>) => state'.ac_on = TRUE]_vars
    /\ [](\A c \in Toggles :
            callbacks(c, callbacks(c, Entry)).state[ToggleField[c]]
                = state[ToggleField[c]])

\* the ac command has just switched the A/C on and logged "On"
C5_Witness ==
    /\ calls = <<"ac">>
    /\ state.ac_on
    /\ out = <<[tag |-> "[CAN TX] A/C: ", text |-> <<"O", "n">>]>>
    /\ renders = 1

\* C6: the bottom A/C label on the canvas agrees with ac_on: "A/C Off"
\* exactly when ac_on is FALSE.
C6_AcLabelFollowsState == (display.ac_label = "A/C Off") <=> ~state.ac_on

\* the eight bands of the button panel as half-open intervals [lo, hi)
ButtonBands ==
    <<[lo |-> 0,   hi |-> 72,  cmd |-> "off"],
      [lo |-> 72,  hi |-> 144, cmd |-> "recirc"],
      [lo |-> 144, hi |-> 216, cmd |-> "ac"],
      [lo |-> 216, hi |-> 288, cmd |-> "auto"],
      [lo |-> 288, hi |-> 360, cmd |-> "hazard"],
      [lo |-> 360, hi |-> 432, cmd |-> "front_def"],
      [lo |-> 432, hi |-> 504, cmd |-> "air_dir"],
      [lo |-> 504, hi |-> 580, cmd |-> "rear_def"]>>

BandsOf(x) == {i \in DOMAIN ButtonBands : ButtonBands[i].lo <= x /\ x < ButtonBands[i].hi}

\* C7: a click on the button panel invokes exactly one callback; for x in
\* 0..579 it is the command of the one band [lo, hi) holding x, the bands
\* being contiguous from 0 to 580; a click at 40 runs off and nothing else.
C7_ButtonDispatch ==
    /\ ButtonBands[1].lo = 0
    /\ ButtonBands[8].hi = 580
    /\ \A i \in 1..7 : ButtonBands[i].hi = ButtonBands[i + 1].lo
    /\ ev.kind = "button" =>
        /\ Len(calls) = 1
        /\ ev.x \in 0..579 =>
            /\ Cardinality(BandsOf(ev.x)) = 1
            /\ \A i \in BandsOf(ev.x) : calls = <<ButtonBands[i].cmd>>
        /\ ev.x = 40 =>
            /\ calls = <<"off">>
            /\ out = <<[tag |-> "[CAN TX] OFF pressed", text |-> <<>>]>>

\* the button panel was clicked at x = 40 and off ran
C7_Witness == ev.kind = "button" /\ ev.x = 40 /\ calls = <<"off">> /\ Len(out) = 1

\* the three sections of the slider panel: a click left of dec decrements,
\* a click right of inc increments
SliderSections ==
    <<[dec |-> 50,  inc |-> 140, down |-> "pass_temp_down", up |-> "pass_temp_up"],
      [dec |-> 240, inc |-> 340, down |-> "fan_down",       up |-> "fan_up"],
      [dec |-> 430, inc |-> 530, down |-> "drv_temp_down",  up |-> "drv_temp_up"]>>

SectionOf(x) == IF x < 193 THEN 1 ELSE IF x < 387 THEN 2 ELSE 3

\* the command the slider panel is to run for a click at x, <<>> for none
SliderZone(x) ==
    LET sec == SliderSections[SectionOf(x)]
    IN  IF x < sec.dec THEN <<sec.down>>
        ELSE IF x > sec.inc THEN <<sec.up>>
        ELSE <<>>

DeadZone(x) == x \in (50..140) \cup (240..340) \cup (430..530)

\* C8: a click on the slider panel invokes at most one callback: the
\* decrement or increment command of its section outside the dead zone, and
\* in the closed dead zones [50,140], [240,340], [430,530] no callback, with
\* the state and the canvas unchanged and nothing printed or drawn.
C8_SliderDispatch ==
    /\ [](ev.kind = "slider" =>
            /\ Len(calls) <= 1
            /\ calls = SliderZone(ev.x)
            /\ DeadZone(ev.x) <=> calls = <<>>)
    /\ [][(ev'.kind = "slider" /\ DeadZone(ev'.x)) => NoEffect]_vars

\* the slider panel was clicked on the edge of a dead zone and nothing ran
C8_Witness == ev.kind = "slider" /\ ev.x = 140 /\ calls = <<>> /\ renders = 0

\* C9: off, recirc, hazard and air_dir print exactly one line, change no
\* field of the state and draw nothing.
C9_LogOnly ==
    [][calls' \in {<<"off">>, <<"recirc">>, <<"hazard">>, <<"air_dir">>} =>
            /\ Len(out') = 1
            /\ state' = state
            /\ display' = display
            /\ renders' = 0]_vars

\* hazard has just run: one line, no draw
C9_Witness == calls = <<"hazard">> /\ Len(out) = 1 /\ renders = 0

\* C10: a tick sets hours and minutes to the wall clock's, whatever they
\* were, changes no other field and draws exactly once; hours is in 0..23
\* and minutes in 0..59; a tick at 14:05 gives 14, 5 and the text "14:05".
C10_ClockTick ==
    /\ [](/\ state.hours \in 0..23
          /\ state.minutes \in 0..59
          /\ ev.kind = "tick" =>
                /\ state.hours = now[1]
                /\ state.minutes = now[2]
                /\ renders = 1
                /\ now = <<14, 5>> =>
                    /\ state.hours = 14
                    /\ state.minutes = 5
                    /\ display.time_str = <<"1", "4", ":", "0", "5">>)
    /\ [][ev'.kind = "tick" =>
            [state' EXCEPT !.hours = state.hours, !.minutes = state.minutes]
                = state]_vars

\* a tick at 14:05 has run, after the A/C was switched on
C10_Witness ==
    /\ ev.kind = "tick"
    /\ now = <<14, 5>>
    /\ display.time_str = <<"1", "4", ":", "0", "5">>
    /\ state.ac_on

\* C11: one timer is pending in every state from construction on, so after
\* every tick exactly one future tick is scheduled; no click changes the
\* number of pending timers; with the timer scheduled fairly, ticks occur
\* infinitely often whatever clicks come between them.
C11_TickReschedules ==
    /\ [](pending = 1)
    /\ [][ev'.kind \in {"button", "slider"} => pending' = pending]_vars
    /\ []<>(ev.kind = "tick")

\* a tick has run after a click command and left one timer pending
C11_Witness ==
    /\ ev.kind = "tick"
    /\ pending = 1
    /\ state.fan_speed = 6
    /\ ~state.auto_mode

\* the characters the seven-segment table knows
KnownGlyphs == {"0", "1", "2", "3", "4", "5", "6", "7", "8", "9", "-", " "}

\* C12: every glyph of '0'..'9', '-' and ' ' is drawn with one fixed set of
\* segments among A..G, whatever its size and wherever it occurs ('-' G
\* alone, ' ' none, '8' all seven, a digit at least two), and a glyph of
\* any other character is drawn with no polygon at all.
C12_SevenSegTotal ==
    \A i \in DOMAIN display :
        LET g == display[i]
        IN  /\ \A k \in DOMAIN g.polygons :
                g.polygons[k] \in {"A", "B", "C", "D", "E", "F", "G"}
            /\ \A k \in DOMAIN g.polygons : \A l \in DOMAIN g.polygons :
                k < l => g.polygons[k] # g.polygons[l]
            /\ \A j \in DOMAIN display :
                display[j].digit = g.digit => display[j].polygons = g.polygons
            /\ g.digit = "-" => g.polygons = <<"G">>
            /\ g.digit = " " => g.polygons = <<>>
            /\ g.digit = "8" => g.polygons = <<"A", "B", "C", "D", "E", "F", "G">>
            /\ g.digit \in KnownGlyphs \ {"-", " "} => Len(g.polygons) >= 2
            /\ g.digit \notin KnownGlyphs => g.polygons = <<>>

\* a character outside the table and an 8 have been drawn
C12_Witness ==
    /\ Len(display) = 2
    /\ display[1].digit = "A"
    /\ display[1].polygons = <<>>
    /\ display[2].digit = "8"
    /\ Len(display[2].polygons) = 7

\* the machine an event leaves behind
After == [state |-> state', display |-> display', out |-> out', renders |-> renders']

\* a single temperature T in tenths, stepped by 0.5 within 16.0..32.0
SingleUp(T) == IF T + 5 > 320 THEN 320 ELSE T + 5

SingleDown(T) == IF T - 5 < 160 THEN 160 ELSE T - 5

\* C13: in every reachable state pass_temp_up and drv_temp_up lead to the
\* same state, canvas, log lines and draws, and so do pass_temp_down and
\* drv_temp_down; every temperature click, passenger or driver, is the step
\* of a model with a single temperature and changes nothing else.
C13_SharedSetTemp ==
    /\ [](/\ callbacks("pass_temp_up", Entry) = callbacks("drv_temp_up", Entry)
          /\ callbacks("pass_temp_down", Entry) = callbacks("drv_temp_down", Entry))
    /\ [][/\ calls' \in {<<"pass_temp_up">>, <<"drv_temp_up">>} =>
                /\ state' = [state EXCEPT !.set_temp = SingleUp(@)]
                /\ After = callbacks("pass_temp_up", Entry)
                /\ After = callbacks("drv_temp_up", Entry)
          /\ calls' \in {<<"pass_temp_down">>, <<"drv_temp_down">>} =>
                /\ state' = [state EXCEPT !.set_temp = SingleDown(@)]
                /\ After = callbacks("pass_temp_down", Entry)
                /\ After = callbacks("drv_temp_down", Entry)]_vars

\* the driver's control has lowered the temperature the passenger's raised
C13_Witness ==
    /\ calls = <<"drv_temp_down">>
    /\ ups = -1
    /\ state.set_temp = 240
    /\ renders = 1

\* the one field of HVACState each command owns
Owned ==
    [off |-> {}, recirc |-> {}, hazard |-> {}, air_dir |-> {},
     ac |-> {"ac_on"}, auto |-> {"auto_mode"},
     front_def |-> {"front_defrost"}, rear_def |-> {"rear_defrost"},
     fan_up |-> {"fan_speed"}, fan_down |-> {"fan_speed"},
     pass_temp_up |-> {"set_temp"}, pass_temp_down |-> {"set_temp"},
     drv_temp_up |-> {"set_temp"}, drv_temp_down |-> {"set_temp"}]

\* C14: a command changes no field of HVACState but the one it owns; no
\* command and no tick changes outside_temp, which is -12 in every
\* reachable state.
C14_OwnFieldOnly ==
    /\ [](state.outside_temp = -12)
    /\ [][state'.outside_temp = state.outside_temp]_vars
    /\ [][\A c \in DOMAIN Owned :
            calls' = <<c>> =>
                \A f \in (DOMAIN state) \ Owned[c] : state'[f] = state[f]]_vars

\* auto has just switched auto mode back on with the A/C still off
C14_Witness ==
    /\ calls = <<"auto">>
    /\ state.auto_mode
    /\ ~state.ac_on
    /\ state.outside_temp = -12

DigitVal(ch) == CHOOSE v \in 0..9 : DigitChar(v) = ch

IsDigit(ch) == \E v \in 0..9 : DigitChar(v) = ch

\* C15: between events the canvas holds the frame of the current state: of
\* the 8 rectangles of the fan bar exactly the first fan_speed are filled,
\* the set temperature text and its large glyphs read set_temp to one
\* decimal place, the time text reads hours and minutes as two digits each;
\* an event that changes a field has drawn after changing it.
C15_DisplayNeverStale ==
    /\ [](/\ display = draw(state)
          /\ \A i \in 1..8 : display.fan_bar[i] <=> (i <= state.fan_speed)
          /\ Len(display.temp_str) = 4
          /\ display.temp_str[3] = "."
          /\ \A i \in {1, 2, 4} : IsDigit(display.temp_str[i])
          /\ 100 * DigitVal(display.temp_str[1]) + 10 * DigitVal(display.temp_str[2])
                + DigitVal(display.temp_str[4]) = state.set_temp
          /\ LET g == frame_glyphs(display)
             IN  <<g[4].digit, g[5].digit, g[6].digit>>
                    = <<display.temp_str[1], display.temp_str[2], display.temp_str[4]>>
          /\ Len(display.time_str) = 5
          /\ display.time_str[3] = ":"
          /\ \A i \in {1, 2, 4, 5} : IsDigit(display.time_str[i])
          /\ 10 * DigitVal(display.time_str[1]) + DigitVal(display.time_str[2])
                = state.hours
          /\ 10 * DigitVal(display.time_str[4]) + DigitVal(display.time_str[5])
                = state.minutes)
    /\ [][state' # state => (renders' >= 1 /\ display' = draw(state'))]_vars

\* fan_up has just filled the whole fan bar
C15_Witness ==
    /\ calls = <<"fan_up">>
    /\ state.fan_speed = 8
    /\ display.fan_bar = <<TRUE, TRUE, TRUE, TRUE, TRUE, TRUE, TRUE, TRUE>>
    /\ renders = 1

=============================================================================
